---- MODULE Spec2Model ----
(***************************************************************************)
(* A model of src/app.py: the one-time dataset loader, the statistics      *)
(* engine, the chart builder, the serialization helpers and the four JSON  *)
(* endpoints of the Flask application.                                     *)
(*                                                                         *)
(* Conventions.                                                            *)
(*  - A cell of the table is an integer; NaN stands for a missing value.   *)
(*    Categorical values (brand, os, ...) are integer codes.               *)
(*  - A value that is not an integer in general (a mean, a quartile, a     *)
(*    standard deviation) is an exact fraction <<numerator,                *)
(*    denominator>>; NaNFrac is the missing one.  What pandas computes     *)
(*    in floating point is modelled by these exact values.                 *)
(*  - The percentages of stacked_gpu_device, which the code itself         *)
(*    computes with Python floats, are binary64 values: Double(m, e) is    *)
(*    the number m / 2^e, m a natural number.                              *)
(*  - performance_score is stored in eighths (the code divides by 4, 2     *)
(*    and 8), so the stored integer is 8 times the code's value.           *)
(*  - A Python dict is a function; {} is EmptyMap.                         *)
(***************************************************************************)
EXTENDS Integers, Sequences, FiniteSets, TLC

VARIABLES
    csv,      \* computer_prices_all.csv as found on disk when the module is imported
    data,     \* the module-level dataset (None until/unless the load succeeds)
    phase,    \* "import": line 72 not yet run; "serving": requests are handled
    loads,    \* how many times load_and_preprocess_data has run
    req,      \* the requests being handled, one per worker slot
    input,    \* the argument of the pure function under check (function specifications)
    out       \* its result (function specifications)

vars == <<csv, data, phase, loads, req, input, out>>

-----------------------------------------------------------------------------
(* Values *)

NaN == 0 - 1

NaNFrac == <<0, 0>>

Frac(n, d) == <<n, d>>

IsNaNFrac(f) == f[2] = 0

\* Equality of two fractions as numbers (NaN equals only NaN here).
FracEq(a, b) ==
    IF IsNaNFrac(a) \/ IsNaNFrac(b) THEN IsNaNFrac(a) /\ IsNaNFrac(b)
    ELSE a[1] * b[2] = b[1] * a[2]

\* a < b for two present fractions with positive denominators.
FracLess(a, b) == a[1] * b[2] < b[1] * a[2]

-----------------------------------------------------------------------------
(* Python floats (IEEE 754 binary64) *)

\* A natural number beyond the integers of TLC is the sequence of its
\* digits to the base Limb, least significant first, the last one not 0;
\* <<>> is zero.
Limb == 2 ^ 15

RECURSIVE BitsOf(_)
\* The number of binary digits of a small natural number.
BitsOf(n) == IF n = 0 THEN 0 ELSE BitsOf(n \div 2) + 1

LimbBits == BitsOf(Limb - 1)

RECURSIVE PowerOfTwo(_)
\* 2^n.
PowerOfTwo(n) == IF n = 0 THEN 1 ELSE 2 * PowerOfTwo(n - 1)

RECURSIVE Big(_)
\* The small natural number n.
Big(n) == IF n = 0 THEN <<>> ELSE <<n % Limb>> \o Big(n \div Limb)

RECURSIVE Trim(_)
\* a without its leading zero digits.
Trim(a) ==
    IF a # <<>> /\ a[Len(a)] = 0 THEN Trim(SubSeq(a, 1, Len(a) - 1)) ELSE a

RECURSIVE BigTimesCarry(_, _, _)
\* a * k + carry, for natural numbers k <= Limb and carry < Limb.
BigTimesCarry(a, k, carry) ==
    IF a = <<>> THEN Big(carry)
    ELSE LET p == Head(a) * k + carry
         IN  <<p % Limb>> \o BigTimesCarry(Tail(a), k, p \div Limb)

BigTimes(a, k) == Trim(BigTimesCarry(a, k, 0))

RECURSIVE BigPlusCarry(_, _, _)
\* a + b + carry.
BigPlusCarry(a, b, carry) ==
    IF a = <<>> /\ b = <<>> THEN Big(carry)
    ELSE LET x == IF a = <<>> THEN 0 ELSE Head(a)
             y == IF b = <<>> THEN 0 ELSE Head(b)
             p == x + y + carry
         IN  <<p % Limb>> \o BigPlusCarry(IF a = <<>> THEN <<>> ELSE Tail(a),
                                          IF b = <<>> THEN <<>> ELSE Tail(b),
                                          p \div Limb)

BigPlus(a, b) == BigPlusCarry(a, b, 0)

RECURSIVE BigLess(_, _)
\* a < b.
BigLess(a, b) ==
    IF Len(a) # Len(b) THEN Len(a) < Len(b)
    ELSE IF a = <<>> THEN FALSE
    ELSE IF a[Len(a)] # b[Len(b)] THEN a[Len(a)] < b[Len(b)]
    ELSE BigLess(SubSeq(a, 1, Len(a) - 1), SubSeq(b, 1, Len(b) - 1))

RECURSIVE BigDivModAll(_, _)
\* <<a \div k, a % k>> for 0 < k <= Limb, the quotient not yet trimmed.
BigDivModAll(a, k) ==
    IF a = <<>> THEN <<<<>>, 0>>
    ELSE LET high == BigDivModAll(Tail(a), k)
             cur == Limb * high[2] + Head(a)
         IN  <<<<cur \div k>> \o high[1], cur % k>>

BigDivMod(a, k) ==
    LET qr == BigDivModAll(a, k) IN <<Trim(qr[1]), qr[2]>>

\* a * 2^n.
ShiftLeft(a, n) ==
    IF a = <<>> THEN <<>>
    ELSE [i \in 1..(n \div LimbBits) |-> 0] \o BigTimes(a, PowerOfTwo(n % LimbBits))

\* The number of binary digits of a.
BitLength(a) ==
    IF a = <<>> THEN 0 ELSE LimbBits * (Len(a) - 1) + BitsOf(a[Len(a)])

\* a / k rounded to the nearest natural number, a tie to the even one: the
\* rounding of every binary64 operation.
RoundedQuotient(a, k) ==
    LET qr == BigDivMod(a, k)
        q == qr[1]
        r == qr[2]
    IN  IF 2 * r > k \/ (2 * r = k /\ q # <<>> /\ q[1] % 2 = 1)
        THEN BigPlus(q, Big(1)) ELSE q

\* The significand of a binary64 has 53 binary digits.
Precision == 53

\* The number m / 2^e.
Double(m, e) == [m |-> m, e |-> e]

RECURSIVE BinaryExponent(_, _)
\* The k with d <= n * 2^k < 2 * d, for positive n and d.
BinaryExponent(n, d) ==
    IF n < d THEN BinaryExponent(2 * n, d) + 1
    ELSE IF n >= 2 * d THEN BinaryExponent(n, 2 * d) - 1
    ELSE 0

\* n / d of two ints, d > 0 (Python's true division): the double nearest to
\* the quotient.
TrueDiv(n, d) ==
    IF n = 0 THEN Double(<<>>, 0)
    ELSE LET e == (Precision - 1) + BinaryExponent(n, d)
         IN  Double(RoundedQuotient(ShiftLeft(Big(n), e), d), e)

\* x * k of a double and a small int: the double nearest to the product.
FloatTimes(x, k) ==
    LET product == BigTimes(x.m, k)
        drop == IF BitLength(product) > Precision
                THEN BitLength(product) - Precision ELSE 0
    IN  Double(RoundedQuotient(product, PowerOfTwo(drop)), x.e - drop)

\* x + y of two doubles: the double nearest to the sum.
FloatPlus(x, y) ==
    LET e == IF x.e > y.e THEN x.e ELSE y.e
        sum == BigPlus(ShiftLeft(x.m, e - x.e), ShiftLeft(y.m, e - y.e))
        drop == IF BitLength(sum) > Precision THEN BitLength(sum) - Precision ELSE 0
    IN  Double(RoundedQuotient(sum, PowerOfTwo(drop)), e - drop)

-----------------------------------------------------------------------------
(* Containers *)

EmptyMap == <<>>

None == [loaded |-> FALSE, cols |-> {}, rows |-> <<>>]

Range(s) == {s[i] : i \in DOMAIN s}

RECURSIVE SumSeq(_)
SumSeq(s) == IF s = <<>> THEN 0 ELSE Head(s) + SumSeq(Tail(s))

RECURSIVE SelectIdx(_, _, _)
\* The indices i of 1..n, ascending, with keep[i].
SelectIdx(keep, i, n) ==
    IF i > n THEN <<>>
    ELSE IF keep[i] THEN <<i>> \o SelectIdx(keep, i + 1, n)
    ELSE SelectIdx(keep, i + 1, n)

\* A column of the table as a list of cells (data[col]).
Column(t, col) == [i \in 1..Len(t.rows) |-> t.rows[i][col]]

\* The non-missing cells of a list, in order (dropna).
DropNa(s) ==
    LET idx == SelectIdx([i \in DOMAIN s |-> s[i] # NaN], 1, Len(s))
    IN  [k \in 1..Len(idx) |-> s[idx[k]]]

RECURSIVE Insert(_, _)
Insert(v, s) ==
    IF s = <<>> THEN <<v>>
    ELSE IF v < Head(s) THEN <<v>> \o s
    ELSE <<Head(s)>> \o Insert(v, Tail(s))

RECURSIVE SortAsc(_)
\* The list sorted ascending.
SortAsc(s) == IF s = <<>> THEN <<>> ELSE Insert(Head(s), SortAsc(Tail(s)))

Take(s, n) == [i \in 1..(IF Len(s) < n THEN Len(s) ELSE n) |-> s[i]]

-----------------------------------------------------------------------------
(* The loader *)

columns_to_drop == {"battery_wh", "charger_watts", "psu_watts"}

PerfInputs ==
    {"cpu_tier", "gpu_tier", "cpu_cores", "vram_gb", "ram_gb", "cpu_boost_ghz"}

\* The score with cpu_cores divided by 2 instead of 4.
PerfScoreBad(r) ==
    IF \E c \in PerfInputs : r[c] = NaN THEN NaN
    ELSE (8 * r["cpu_tier"] + 8 * r["gpu_tier"] + 4 * r["cpu_cores"]
          + 4 * r["vram_gb"] + r["ram_gb"]) * r["cpu_boost_ghz"]

\* 8 * (cpu_tier + gpu_tier + cpu_cores/4 + vram_gb/2 + ram_gb/8) * cpu_boost_ghz,
\* missing as soon as one operand is missing (NaN propagates through + / *).
PerfScore(r) ==
    IF \E c \in PerfInputs : r[c] = NaN THEN NaN
    ELSE (8 * r["cpu_tier"] + 8 * r["gpu_tier"] + 2 * r["cpu_cores"]
          + 4 * r["vram_gb"] + r["ram_gb"]) * r["cpu_boost_ghz"]

\* data['performance_score'] = ...: the row with the column added (or overwritten).
WithScore(r, cols) ==
    [c \in cols \cup {"performance_score"} |->
        IF c = "performance_score" THEN PerfScore(r) ELSE r[c]]

\* load_and_preprocess_data(): read_csv, drop the existing ones of the three
\* columns, add performance_score; any exception (unreadable file, a missing
\* input column) is caught and None returned.
load_and_preprocess_data(file) ==
    IF ~file.readable THEN None
    ELSE LET existing_columns == columns_to_drop \cap file.cols
             kept == file.cols \ existing_columns
         IN  IF ~(PerfInputs \subseteq kept) THEN None
             ELSE [loaded |-> TRUE,
                   cols |-> kept \cup {"performance_score"},
                   rows |-> [i \in 1..Len(file.rows) |->
                                WithScore(file.rows[i], kept)]]

-----------------------------------------------------------------------------
(* Frequency tables and aggregates (the pandas calls the engines make) *)

\* The distinct non-missing cells of a list, in order of first occurrence.
FirstSeen(s) ==
    LET keep == [i \in DOMAIN s |-> s[i] # NaN /\ \A j \in 1..(i - 1) : s[j] # s[i]]
        idx == SelectIdx(keep, 1, Len(s))
    IN  [k \in 1..Len(idx) |-> s[idx[k]]]

Count(s, v) == Cardinality({i \in DOMAIN s : s[i] = v})

RECURSIVE InsertDesc(_, _)
\* <<value, count>> put after every entry whose count is not smaller.
InsertDesc(v, s) ==
    IF s = <<>> THEN <<v>>
    ELSE IF Head(s)[2] >= v[2] THEN <<Head(s)>> \o InsertDesc(v, Tail(s))
    ELSE <<v>> \o s

RECURSIVE SortDesc(_)
\* Pairs <<value, count>> by count descending, equal counts in their given order.
SortDesc(s) ==
    IF s = <<>> THEN <<>>
    ELSE InsertDesc(s[Len(s)], SortDesc(SubSeq(s, 1, Len(s) - 1)))

\* Series.value_counts(): <<value, count>> of every non-missing value, most
\* frequent first, equal counts in order of first occurrence.
value_counts(s) ==
    LET seen == FirstSeen(s)
    IN  SortDesc([k \in 1..Len(seen) |-> <<seen[k], Count(s, seen[k])>>])

\* The values of a frequency table (its index).
Index(vc) == [k \in 1..Len(vc) |-> vc[k][1]]

\* The counts of a frequency table (its values).
Values(vc) == [k \in 1..Len(vc) |-> vc[k][2]]

\* Series.mean(): missing cells are skipped; missing when none is left.
Mean(s) ==
    LET v == DropNa(s)
    IN  IF v = <<>> THEN NaNFrac ELSE Frac(SumSeq(v), Len(v))

\* Series.quantile(k/4) taking the lower neighbour instead of interpolating.
quantile_lower(s, k) ==
    LET v == SortAsc(DropNa(s))
        n == Len(v)
    IN  IF n = 0 THEN NaNFrac ELSE Frac(4 * v[(((n - 1) * k) \div 4) + 1], 4)

\* Series.quantile(k/4), linear interpolation between the closest ranks: the
\* value at position (n-1)*k/4 of the sorted non-missing cells.
quantile(s, k) ==
    LET v == SortAsc(DropNa(s))
        n == Len(v)
        lo == (((n - 1) * k) \div 4) + 1
        r == ((n - 1) * k) % 4
    IN  IF n = 0 THEN NaNFrac
        ELSE IF r = 0 THEN Frac(4 * v[lo], 4)
        ELSE Frac(4 * v[lo] + r * (v[lo + 1] - v[lo]), 4)

\* Series.median(): the middle of the sorted non-missing cells.
Median(s) ==
    LET v == SortAsc(DropNa(s))
        n == Len(v)
    IN  IF n = 0 THEN NaNFrac
        ELSE IF n % 2 = 1 THEN Frac(v[(n + 1) \div 2], 1)
        ELSE Frac(v[n \div 2] + v[(n \div 2) + 1], 2)

Min(s) ==
    LET v == SortAsc(DropNa(s)) IN IF v = <<>> THEN NaN ELSE v[1]

Max(s) ==
    LET v == SortAsc(DropNa(s)) IN IF v = <<>> THEN NaN ELSE v[Len(v)]

\* round(): a non-negative fraction n/d to the nearest integer, halves to even.
RoundHalfEven(n, d) ==
    LET q == n \div d
        r == n % d
    IN  IF 2 * r < d THEN q
        ELSE IF 2 * r > d THEN q + 1
        ELSE IF q % 2 = 0 THEN q ELSE q + 1

\* round(x, 2) of a fraction: hundredths.
Round2(f) ==
    IF IsNaNFrac(f) THEN NaNFrac ELSE Frac(RoundHalfEven(100 * f[1], f[2]), 100)

-----------------------------------------------------------------------------
(* The statistics engine *)

categorical_cols ==
    {"device_type", "brand", "model", "os", "form_factor", "cpu_brand", "cpu_model",
     "gpu_brand", "gpu_model", "storage_type", "display_type", "resolution", "wifi"}

numerical_cols ==
    {"release_year", "cpu_tier", "cpu_cores", "cpu_threads", "cpu_base_ghz",
     "cpu_boost_ghz", "gpu_tier", "vram_gb", "ram_gb", "storage_gb",
     "storage_drive_count", "display_size_in", "refresh_hz", "bluetooth",
     "weight_kg", "warranty_months", "price", "performance_score"}

TopValues == 10

\* describe() of a categorical column: count, unique, top, freq.
DescribeCategorical(s) ==
    LET counts == value_counts(s)
    IN  [count |-> Len(DropNa(s)),
         unique |-> Len(counts),
         top |-> IF counts = <<>> THEN NaN ELSE counts[1][1],
         freq |-> IF counts = <<>> THEN NaN ELSE counts[1][2]]

\* describe() of a numerical column.  std is reported squared (std2), the
\* sample variance, as an exact fraction.
DescribeNumerical(s) ==
    LET v == DropNa(s)
        n == Len(v)
        sq == [i \in 1..n |-> v[i] * v[i]]
    IN  [count |-> n,
         mean |-> Mean(s),
         std2 |-> IF n < 2 THEN NaNFrac
                  ELSE Frac(n * SumSeq(sq) - SumSeq(v) * SumSeq(v), n * (n - 1)),
         min |-> Min(s),
         q25 |-> quantile(s, 1),
         q50 |-> quantile(s, 2),
         q75 |-> quantile(s, 3),
         max |-> Max(s)]

\* The record of one categorical column (lines 95-103).
CategoricalStat(t, col) ==
    LET counts == value_counts(Column(t, col))
    IN  [type |-> "categorical",
         describe |-> DescribeCategorical(Column(t, col)),
         value_counts |-> Take(counts, TopValues),
         total_unique |-> Len(counts)]

\* The record of one numerical column (lines 108-118).
NumericalStat(t, col) ==
    [type |-> "numerical",
     describe |-> DescribeNumerical(Column(t, col)),
     quartiles |-> [Q1 |-> quantile(Column(t, col), 1),
                    Q2 |-> quantile(Column(t, col), 2),
                    Q3 |-> quantile(Column(t, col), 3)]]

\* The first loop of get_descriptive_statistics (lines 93-103).
StatsCategorical(t) ==
    [col \in categorical_cols \cap t.cols |-> CategoricalStat(t, col)]

\* The second loop leaving out the columns that have no value at all.
StatsNumericalSkipEmpty(t, stats) ==
    [col \in DOMAIN stats
              \cup {c \in numerical_cols \cap t.cols : DropNa(Column(t, c)) # <<>>} |->
        IF col \in numerical_cols THEN NumericalStat(t, col) ELSE stats[col]]

\* The second loop (lines 106-118), adding to the mapping built so far.
StatsNumerical(t, stats) ==
    [col \in DOMAIN stats \cup (numerical_cols \cap t.cols) |->
        IF col \in numerical_cols THEN NumericalStat(t, col) ELSE stats[col]]

\* get_descriptive_statistics(): {} when there is no dataset, else one record
\* per listed column the table has.
get_descriptive_statistics(t) ==
    IF t = None THEN EmptyMap ELSE StatsNumerical(t, StatsCategorical(t))

-----------------------------------------------------------------------------
(* The chart builder *)

SampleCap == 2000

random_state == 42

TopBrands == 10

TopOs == 8

MinYearCount == 10

TopGpuBrands == 5

ChartIds ==
    <<"scatter_price_performance", "bar_top_brands", "box_price_os", "hist_price",
      "pie_device_type", "heatmap_correlation", "bar_cpu_brand", "line_price_trend",
      "stacked_gpu_device">>

NumCharts == Len(ChartIds)

\* The columns step k reads with data[...]: an absent one raises KeyError.
Requires(k) ==
    CASE k = 1 -> {"performance_score", "price"}
      [] k = 2 -> {"brand", "price"}
      [] k = 3 -> {"os", "price"}
      [] k = 4 -> {"price"}
      [] k = 5 -> {"device_type"}
      [] k = 6 -> {}
      [] k = 7 -> {"cpu_brand", "price"}
      [] k = 8 -> {"release_year", "price"}
      [] OTHER -> {"gpu_brand", "device_type"}

RECURSIVE Shuffle(_, _, _)
\* A seeded shuffle of the positions 1..i of p (Fisher-Yates over a linear
\* congruential generator): the permutation depends on the seed and the length only.
Shuffle(p, i, seed) ==
    IF i < 2 THEN p
    ELSE LET s == (seed * 75 + 74) % 65537
             j == (s % i) + 1
         IN  Shuffle([p EXCEPT ![i] = p[j], ![j] = p[i]], i - 1, s)

\* data.sample(n=min(2000, len(data))) without random_state: the sample
\* follows the state of numpy's
\* process-wide generator, held in input.
SampleUnseeded(t) ==
    LET len == Len(t.rows)
        n == IF SampleCap < len THEN SampleCap ELSE len
        perm == Shuffle([i \in 1..len |-> i], len, input)
    IN  [i \in 1..n |-> t.rows[perm[i]]]

\* data.sample(n=min(2000, len(data)), random_state=42): n distinct rows.
Sample(t) ==
    LET len == Len(t.rows)
        n == IF SampleCap < len THEN SampleCap ELSE len
        perm == Shuffle([i \in 1..len |-> i], len, random_state)
    IN  [i \in 1..n |-> t.rows[perm[i]]]

\* 1. scatter_price_performance (lines 132-141).
ScatterPricePerformance(t) ==
    LET sample_data == Sample(t)
    IN  [title |-> "Price vs Performance Score",
         x |-> [i \in DOMAIN sample_data |-> sample_data[i]["performance_score"]],
         y |-> [i \in DOMAIN sample_data |-> sample_data[i]["price"]]]

\* The price cells of the rows whose key column holds k.
GroupPrices(t, key, k) ==
    LET idx == SelectIdx([i \in 1..Len(t.rows) |-> t.rows[i][key] = k], 1, Len(t.rows))
    IN  [j \in 1..Len(idx) |-> t.rows[idx[j]]["price"]]

\* groupby(key): the distinct non-missing keys, ascending.
GroupKeys(t, key) == SortAsc(FirstSeen(Column(t, key)))

RECURSIVE InsertFracDesc(_, _)
\* <<key, mean>> put after every entry whose mean is not smaller; missing means last.
InsertFracDesc(v, s) ==
    IF s = <<>> THEN <<v>>
    ELSE IF IsNaNFrac(v[2]) \/ (~IsNaNFrac(Head(s)[2]) /\ ~FracLess(Head(s)[2], v[2]))
         THEN <<Head(s)>> \o InsertFracDesc(v, Tail(s))
    ELSE <<v>> \o s

RECURSIVE SortFracDesc(_)
\* sort_values(ascending=False) of <<key, mean>> pairs.
SortFracDesc(s) ==
    IF s = <<>> THEN <<>>
    ELSE InsertFracDesc(s[Len(s)], SortFracDesc(SubSeq(s, 1, Len(s) - 1)))

\* data.groupby(key)['price'].mean().sort_values(ascending=False)
MeanPriceBy(t, key) ==
    LET keys == GroupKeys(t, key)
    IN  SortFracDesc([i \in 1..Len(keys) |-> <<keys[i], Mean(GroupPrices(t, key, keys[i]))>>])

\* f'${val:.0f}': the mean in whole dollars (NaN for a missing mean).
DollarText(f) == IF IsNaNFrac(f) THEN NaN ELSE RoundHalfEven(f[1], f[2])

\* A bar chart of <<key, mean>> pairs (lines 167-174 and 329-336).
BarOfMeans(title, means) ==
    [title |-> title,
     x |-> Index(means),
     y |-> Values(means),
     text |-> [i \in 1..Len(means) |-> DollarText(means[i][2])]]

\* 2. bar_top_brands (lines 165-174).
BarTopBrands(t) ==
    BarOfMeans("Top 10 Brands with Highest Average Price",
               Take(MeanPriceBy(t, "brand"), TopBrands))

\* 3. box_price_os (lines 198-208).
BoxPriceOs(t) ==
    LET os_list == Index(Take(value_counts(Column(t, "os")), TopOs))
    IN  [title |-> "Price Distribution by Operating System",
         traces |-> [i \in 1..Len(os_list) |->
                        [name |-> os_list[i], y |-> GroupPrices(t, "os", os_list[i])]]]

\* 4. hist_price (lines 230-236).
HistPrice(t) == [title |-> "Price Distribution", x |-> Column(t, "price"), nbinsx |-> 50]

\* 5. pie_device_type (lines 259-270).
PieDeviceType(t) ==
    LET device_counts == value_counts(Column(t, "device_type"))
    IN  [title |-> "Distribution of Device Types",
         labels |-> Index(device_counts),
         values |-> Values(device_counts)]

numeric_cols ==
    <<"price", "performance_score", "cpu_cores", "cpu_threads", "ram_gb",
      "storage_gb", "vram_gb", "cpu_base_ghz", "cpu_boost_ghz", "release_year">>

\* 6. heatmap_correlation (lines 290-307): the axes are the listed columns the
\* table has; the Pearson coefficients themselves (z, text) are real numbers
\* and are not represented.
HeatmapCorrelation(t) ==
    LET idx == SelectIdx([i \in DOMAIN numeric_cols |-> numeric_cols[i] \in t.cols],
                         1, Len(numeric_cols))
        available_cols == [j \in 1..Len(idx) |-> numeric_cols[idx[j]]]
    IN  [title |-> "Correlation Matrix of Numeric Variables",
         x |-> available_cols,
         y |-> available_cols]

\* 7. bar_cpu_brand (lines 327-336).
BarCpuBrand(t) == BarOfMeans("Average Price by CPU Brand", MeanPriceBy(t, "cpu_brand"))

\* The filter of line 366 with > in place of >=.
KeepYearStrict(count) == count > MinYearCount

\* yearly_stats['count'] >= 10 (line 366).
KeepYear(count) == count >= MinYearCount

\* groupby('release_year').agg({'price': ['mean', 'count']}).round(2), filtered:
\* <<release_year, avg_price, count>> per year, ascending, count being the
\* number of non-missing prices of the year (lines 359-366).
YearlyStats(t) ==
    LET keys == GroupKeys(t, "release_year")
        all == [i \in 1..Len(keys) |->
                   LET prices == GroupPrices(t, "release_year", keys[i])
                   IN  <<keys[i], Round2(Mean(prices)), Len(DropNa(prices))>>]
        idx == SelectIdx([i \in 1..Len(all) |-> KeepYear(all[i][3])], 1, Len(all))
    IN  [j \in 1..Len(idx) |-> all[idx[j]]]

\* 8. line_price_trend (lines 359-376).
LinePriceTrend(t) ==
    LET yearly_stats == YearlyStats(t)
    IN  [title |-> "Average Price Trend by Release Year",
         x |-> [i \in 1..Len(yearly_stats) |-> yearly_stats[i][1]],
         y |-> [i \in 1..Len(yearly_stats) |-> yearly_stats[i][2]]]

\* len(data[(device_type == device) & (gpu_brand == gpu)]) (line 408).
CountDeviceGpu(t, device, gpu) ==
    Cardinality({i \in 1..Len(t.rows) :
                    t.rows[i]["device_type"] = device /\ t.rows[i]["gpu_brand"] = gpu})

\* The total counting only the rows whose GPU brand is present.
TotalDeviceKnownGpu(t, device) ==
    Cardinality({i \in 1..Len(t.rows) :
                    t.rows[i]["device_type"] = device /\ t.rows[i]["gpu_brand"] # NaN})

\* len(data[data['device_type'] == device]) (line 409).
TotalDevice(t, device) ==
    Cardinality({i \in 1..Len(t.rows) : t.rows[i]["device_type"] = device})

\* (count / total_device * 100) if total_device > 0 else 0 (line 410), the
\* division and the multiplication each rounded to a double.
Percentage(count, total_device) ==
    IF total_device > 0 THEN FloatTimes(TrueDiv(count, total_device), 100)
    ELSE Double(<<>>, 0)

\* 9. stacked_gpu_device (lines 399-418): one trace per top GPU brand, its y
\* the percentage of each device type's rows with that brand.
StackedGpuDevice(t) ==
    LET gpu_brands == Index(Take(value_counts(Column(t, "gpu_brand")), TopGpuBrands))
        device_types == Index(value_counts(Column(t, "device_type")))
    IN  [title |-> "GPU Brand Composition by Device Type (%)",
         x |-> device_types,
         traces |-> [i \in 1..Len(gpu_brands) |->
                        [name |-> gpu_brands[i],
                         y |-> [j \in 1..Len(device_types) |->
                                   Percentage(
                                       CountDeviceGpu(t, device_types[j], gpu_brands[i]),
                                       TotalDevice(t, device_types[j]))]]]]

\* The figure step k builds.
Figure(k, t) ==
    CASE k = 1 -> ScatterPricePerformance(t)
      [] k = 2 -> BarTopBrands(t)
      [] k = 3 -> BoxPriceOs(t)
      [] k = 4 -> HistPrice(t)
      [] k = 5 -> PieDeviceType(t)
      [] k = 6 -> HeatmapCorrelation(t)
      [] k = 7 -> BarCpuBrand(t)
      [] k = 8 -> LinePriceTrend(t)
      [] OTHER -> StackedGpuDevice(t)

\* Step k raises: it reads a column the table does not have, or a call it makes
\* fails for another reason (fault).
StepRaises(k, t, fault) == fault \/ ~(Requires(k) \subseteq t.cols)

\* charts[id] = _fig_json(fig): the mapping with step k's chart added.
AddChart(charts, k, t) ==
    [id \in DOMAIN charts \cup {ChartIds[k]} |->
        IF id = ChartIds[k] THEN Figure(k, t) ELSE charts[id]]

\* An except clause handing back what was built before the failure.
OnChartErrorPartial(charts) == charts

\* except Exception: return {} (lines 447-449).
OnChartError(charts) == EmptyMap

RECURSIVE BuildCharts(_, _, _, _)
\* The try block from step k on, charts being what the steps before built;
\* fault is the step at which a call fails unexpectedly (0: none).
BuildCharts(t, k, charts, fault) ==
    IF k > NumCharts THEN charts
    ELSE IF StepRaises(k, t, fault = k) THEN OnChartError(charts)
    ELSE BuildCharts(t, k + 1, AddChart(charts, k, t), fault)

\* create_plotly_charts(): {} without a dataset (line 125), else the try block.
create_plotly_charts(t, fault) ==
    IF t = None THEN EmptyMap ELSE BuildCharts(t, 1, EmptyMap, fault)

-----------------------------------------------------------------------------
(* The summary and health endpoints' payloads *)

\* The columns get_summary reads, in the order it reads them (lines 499-506).
SummaryCols == <<"price", "brand", "model", "device_type", "os">>

\* str(e) of the KeyError: the first column read that the table does not have.
FirstMissing(t, cols) ==
    LET idx == SelectIdx([i \in DOMAIN cols |-> cols[i] \notin t.cols], 1, Len(cols))
    IN  cols[idx[1]]

\* to_dict() of a frequency table.
ToDict(vc) ==
    [v \in Range(Index(vc)) |-> (CHOOSE p \in Range(vc) : p[1] = v)[2]]

\* summary_data (lines 497-507).
SummaryData(t) ==
    [total_devices |-> Len(t.rows),
     avg_price |-> Round2(Mean(Column(t, "price"))),
     median_price |-> Round2(Median(Column(t, "price"))),
     min_price |-> Min(Column(t, "price")),
     max_price |-> Max(Column(t, "price")),
     total_brands |-> Len(FirstSeen(Column(t, "brand"))),
     total_models |-> Len(FirstSeen(Column(t, "model"))),
     device_types |-> ToDict(value_counts(Column(t, "device_type"))),
     operating_systems |-> ToDict(value_counts(Column(t, "os")))]

\* A handler's return value: jsonify(body), status.
Response(status, body) == [status |-> status, body |-> body]

NoResponse == Response(0, EmptyMap)

\* jsonify({"error": message}), 500
ErrorResponse(message) == Response(500, [error |-> message])

\* A health check that reports the load as done whatever its outcome.
HealthBodyAlways(t) == [status |-> "healthy", data_loaded |-> TRUE]

\* {"status": "healthy", "data_loaded": data is not None} (line 516).
HealthBody(t) == [status |-> "healthy", data_loaded |-> t # None]

\* get_summary() run to its end (lines 493-511); fault: a call inside the try fails.
get_summary(t, fault) ==
    IF t = None THEN ErrorResponse("Data not available")
    ELSE IF fault THEN ErrorResponse("unexpected error")
    ELSE IF ~(Range(SummaryCols) \subseteq t.cols)
         THEN ErrorResponse(FirstMissing(t, SummaryCols))
    ELSE Response(200, SummaryData(t))

\* What the server answers when an exception escapes a handler.
HtmlErrorPage == Response(500, [html |-> "Internal Server Error"])

\* get_charts() without the test of line 483: an empty chart set is sent as it is.
ChartsResponseUnchecked(charts, fault) ==
    IF fault THEN ErrorResponse("unexpected error") ELSE Response(200, charts)

\* The tail of get_charts() (lines 483-488) given what create_plotly_charts returned.
ChartsResponse(charts, fault) ==
    IF charts = EmptyMap THEN ErrorResponse("No charts available")
    ELSE IF fault THEN ErrorResponse("unexpected error")
    ELSE Response(200, charts)

\* The tail of get_statistics_api() (lines 473-476).
StatisticsResponse(stats, fault) ==
    IF fault THEN ErrorResponse("unexpected error") ELSE Response(200, stats)

-----------------------------------------------------------------------------
(* Source files *)

\* The columns of a complete source file that the program reads by name.
FullCols ==
    PerfInputs \cup {"price", "brand", "model", "os", "device_type", "cpu_brand",
                     "gpu_brand", "release_year", "battery_wh"}

DefaultCell(c) ==
    CASE c = "release_year" -> 2020
      [] c = "price" -> 1000
      [] c = "cpu_cores" -> 4
      [] c = "ram_gb" -> 8
      [] OTHER -> 1

\* A row over cols: the cells given in over, default cells elsewhere.
Row(cols, over) ==
    [c \in cols |-> IF c \in DOMAIN over THEN over[c] ELSE DefaultCell(c)]

\* A readable file with these columns and rows.
Csv(cols, rows) == [readable |-> TRUE, cols |-> cols, rows |-> rows]

\* A file read_csv cannot read or parse.
Unreadable == [readable |-> FALSE, cols |-> {}, rows |-> <<>>]

\* The row lists of the server specification: no row at all (a header-only
\* file), and three rows with a missing price, two brands and two years.
ServerRows(cols) ==
    <<<<>>,
     <<Row(cols, [price |-> 1000, brand |-> 1]),
       Row(cols, [price |-> NaN, brand |-> 2, os |-> 2, gpu_brand |-> 2,
                  release_year |-> 2021, cpu_tier |-> NaN]),
       Row(cols, [price |-> 3000, brand |-> 2, device_type |-> 2, model |-> 2])>>>>

\* The columns one of which a source file of the server specification may lack.
Droppable ==
    {"price", "brand", "model", "os", "device_type", "cpu_brand", "gpu_brand",
     "release_year", "battery_wh", "cpu_tier"}

ServerCsvs ==
    {Unreadable}
    \cup {Csv(FullCols, rows) : rows \in Range(ServerRows(FullCols))}
    \cup {Csv(FullCols \ {c}, ServerRows(FullCols \ {c})[2]) : c \in Droppable}

-----------------------------------------------------------------------------
(* The server: the import-time load and the request handlers *)

MaxRequests == 2

Requests == 1..MaxRequests

Endpoints == {"statistics", "charts", "summary", "health"}

Idle == [endpoint |-> "none", pc |-> "idle", step |-> 0, local |-> EmptyMap,
         resp |-> NoResponse]

\* The state of a request that has answered.
Done(r, resp) == [Idle EXCEPT !.endpoint = req[r].endpoint, !.pc = "done", !.resp = resp]

\* No input: the specification checks no function of an argument.
Unused == <<>>

\* The function under check has not been called.
NoOut == [called |-> FALSE, value |-> <<>>]

\* It has returned value.
Result(value) == [called |-> TRUE, value |-> value]

Init ==
    /\ csv \in ServerCsvs
    /\ data = None
    /\ phase = "import"
    /\ loads = 0
    /\ req = [r \in Requests |-> Idle]
    /\ input = Unused
    /\ out = NoOut

\* data = load_and_preprocess_data() (line 72), run when the module is imported.
Load ==
    /\ phase = "import"
    /\ data' = load_and_preprocess_data(csv)
    /\ loads' = loads + 1
    /\ phase' = "serving"
    /\ UNCHANGED <<csv, req, input, out>>

\* A request arrives at a free worker slot and its handler is entered.
Begin(r) ==
    /\ phase = "serving"
    /\ req[r].pc \in {"idle", "done"}
    /\ \E e \in Endpoints :
          req' = [req EXCEPT ![r] = [endpoint |-> e, pc |-> e, step |-> 1,
                                    local |-> EmptyMap, resp |-> NoResponse]]
    /\ UNCHANGED <<csv, data, phase, loads, input, out>>

\* health_check() (lines 514-516).
health_check(r) ==
    /\ req[r].pc = "health"
    /\ req' = [req EXCEPT ![r] = Done(r, Response(200, HealthBody(data)))]
    /\ UNCHANGED <<csv, data, phase, loads, input, out>>

\* get_summary() (lines 491-511).
GetSummary(r) ==
    /\ req[r].pc = "summary"
    /\ \E fault \in BOOLEAN :
          req' = [req EXCEPT ![r] = Done(r, get_summary(data, fault))]
    /\ UNCHANGED <<csv, data, phase, loads, input, out>>

\* get_statistics_api(), first half: the call of get_descriptive_statistics up
\* to the end of its categorical loop (lines 472, 76-103).
StatisticsCategorical(r) ==
    /\ req[r].pc = "statistics"
    /\ req[r].step = 1
    /\ \E fault \in BOOLEAN :
          req' = [req EXCEPT ![r] =
                    IF data = None THEN Done(r, StatisticsResponse(EmptyMap, FALSE))
                    ELSE IF fault THEN Done(r, ErrorResponse("unexpected error"))
                    ELSE [req[r] EXCEPT !.step = 2, !.local = StatsCategorical(data)]]
    /\ UNCHANGED <<csv, data, phase, loads, input, out>>

\* get_statistics_api(), second half: the numerical loop, the return and
\* jsonify (lines 106-120, 473-476).
StatisticsNumerical(r) ==
    /\ req[r].pc = "statistics"
    /\ req[r].step = 2
    /\ \E fault \in BOOLEAN :
          req' = [req EXCEPT ![r] =
                    Done(r, StatisticsResponse(StatsNumerical(data, req[r].local), fault))]
    /\ UNCHANGED <<csv, data, phase, loads, input, out>>

\* create_plotly_charts has returned charts to get_charts.
ChartsReturned(rq, charts) == [rq EXCEPT !.pc = "charts_returned", !.step = 0, !.local = charts]

\* What one step of the try block of create_plotly_charts makes of the request:
\* the chart added, or the function's return value.
ChartStepResult(rq, t, fault) ==
    IF t = None THEN ChartsReturned(rq, EmptyMap)
    ELSE IF StepRaises(rq.step, t, fault) THEN ChartsReturned(rq, OnChartError(rq.local))
    ELSE IF rq.step = NumCharts THEN ChartsReturned(rq, AddChart(rq.local, rq.step, t))
    ELSE [rq EXCEPT !.step = rq.step + 1, !.local = AddChart(rq.local, rq.step, t)]

\* The table with the missing cells of a column filled with 0 in place.
FillNa(t, col) ==
    IF t = None \/ col \notin t.cols THEN t
    ELSE [t EXCEPT !.rows = [i \in 1..Len(t.rows) |->
                               [t.rows[i] EXCEPT ![col] = IF @ = NaN THEN 0 ELSE @]]]

\* A chart step whose histogram first fills the missing prices of the shared table.
ChartStepInPlace(r) ==
    /\ req[r].pc = "charts"
    /\ \E fault \in BOOLEAN :
          req' = [req EXCEPT ![r] = ChartStepResult(req[r], data, fault)]
    /\ data' = IF req[r].step = 4 THEN FillNa(data, "price") ELSE data
    /\ UNCHANGED <<csv, phase, loads, input, out>>

\* get_charts() inside create_plotly_charts: one of its nine steps (lines 125-451).
ChartStep(r) ==
    /\ req[r].pc = "charts"
    /\ \E fault \in BOOLEAN :
          req' = [req EXCEPT ![r] = ChartStepResult(req[r], data, fault)]
    /\ UNCHANGED <<csv, data, phase, loads, input, out>>

\* get_charts() after create_plotly_charts returned (lines 483-488).
ChartsRespond(r) ==
    /\ req[r].pc = "charts_returned"
    /\ \E fault \in BOOLEAN :
          req' = [req EXCEPT ![r] = Done(r, ChartsResponse(req[r].local, fault))]
    /\ UNCHANGED <<csv, data, phase, loads, input, out>>

Next ==
    \/ Load
    \/ \E r \in Requests :
          \/ Begin(r)
          \/ health_check(r)
          \/ GetSummary(r)
          \/ StatisticsCategorical(r)
          \/ StatisticsNumerical(r)
          \/ ChartStep(r)
          \/ ChartsRespond(r)

Spec == Init /\ [][Next]_vars

-----------------------------------------------------------------------------
(* Properties of the server *)

AllChartIds == Range(ChartIds)

\* C1: create_plotly_charts is all-or-nothing: whatever the table and wherever
\* a step fails, the mapping it returns to get_charts holds exactly the nine
\* chart ids or is the empty mapping; no partial set is returned.
C1_AllOrNothing ==
    \A r \in Requests :
        req[r].pc = "charts_returned" =>
            \/ DOMAIN req[r].local = AllChartIds
            \/ req[r].local = EmptyMap

\* A table whose last chart step fails on a missing column after eight charts
\* were built, and the empty mapping returned.
C1_Witness ==
    \E r \in Requests :
        /\ req[r].pc = "charts_returned"
        /\ req[r].local = EmptyMap
        /\ data # None
        /\ "gpu_brand" \notin data.cols
        /\ \A k \in 1..(NumCharts - 1) : Requires(k) \subseteq data.cols

\* What a request to endpoint e answers when it is handled alone, from its
\* first step to its last, on table t: one response per place a call can fail.
AloneResponses(e, t) ==
    CASE e = "health" -> {Response(200, HealthBody(t))}
      [] e = "summary" -> {get_summary(t, fault) : fault \in BOOLEAN}
      [] e = "statistics" ->
            {StatisticsResponse(get_descriptive_statistics(t), fault) :
                fault \in IF t = None THEN {FALSE} ELSE BOOLEAN}
      [] OTHER ->
            {ChartsResponse(create_plotly_charts(t, k), fault) :
                k \in 0..NumCharts, fault \in BOOLEAN}

\* C2: once loaded, the shared table is never changed by a request step, and a
\* request that answers, however its steps interleaved with other requests',
\* answers what it would have answered alone.
C2_TableReadOnly ==
    [][phase = "serving" =>
          /\ data' = data
          /\ \A r \in Requests :
                (req[r].pc # "done" /\ req'[r].pc = "done") =>
                    req'[r].resp \in AloneResponses(req'[r].endpoint, data)]_vars

\* Two chart requests in flight at once over a loaded table, one of them done.
C2_Witness ==
    /\ data # None
    /\ \E r, q \in Requests :
          /\ r # q
          /\ req[r].endpoint = "charts" /\ req[r].pc = "done" /\ req[r].resp.status = 200
          /\ req[q].pc = "charts" /\ req[q].step > 1

\* The source file can be loaded: it is readable and has the six input columns.
Loadable(file) == file.readable /\ PerfInputs \subseteq file.cols

\* C3: the loader runs once; a failed load leaves the dataset unavailable for
\* good while requests are still answered; /health always answers 200,
\* "healthy", and data_loaded exactly when the load succeeded.
C3_LoadOnce ==
    /\ loads <= 1
    /\ (phase = "serving") = (loads = 1)
    /\ phase = "import" => data = None
    /\ phase = "serving" => (data # None) = Loadable(csv)
    /\ \A r \in Requests :
          (req[r].endpoint = "health" /\ req[r].pc = "done") =>
              req[r].resp = Response(200, [status |-> "healthy",
                                           data_loaded |-> Loadable(csv)])

\* The load failed, and a health request was answered all the same.
C3_Witness ==
    /\ phase = "serving"
    /\ data = None
    /\ \E r \in Requests :
          /\ req[r].endpoint = "health"
          /\ req[r].pc = "done"
          /\ req[r].resp.body.data_loaded = FALSE

\* A request is being handled.
InFlight(r) == req[r].pc \notin {"idle", "done"}

\* The answer a request gives in this step is a JSON answer: 200 with a body,
\* or 500 with {"error": message}.
JsonAnswer(resp) ==
    \/ resp.status = 200
    \/ resp.status = 500 /\ DOMAIN resp.body = {"error"}

\* C4: every request to /api/statistics, /api/charts and /api/summary is
\* answered with 200 or with 500 and {"error": message}, never with the
\* server's own error page: the message is "No charts available" for an empty
\* chart set, a server error answers /api/summary without a table or with a
\* column missing, and an engine that raised returns the empty chart set; the
\* step that answers changes neither the table nor any other request.
C4_ErrorsAnswered ==
    [][\A r \in Requests :
            (InFlight(r) /\ req'[r].pc = "done") =>
                /\ JsonAnswer(req'[r].resp)
                /\ data' = data
                /\ \A q \in Requests \ {r} : req'[q] = req[q]
                /\ (req[r].pc = "charts_returned" /\ req[r].local = EmptyMap) =>
                       req'[r].resp = ErrorResponse("No charts available")
                /\ (req[r].pc = "summary" /\ data = None) =>
                       req'[r].resp = ErrorResponse("Data not available")
                /\ (req[r].pc = "summary" /\ data # None
                      /\ ~(Range(SummaryCols) \subseteq data.cols)) =>
                       req'[r].resp.status = 500]_vars

\* A chart request answered "No charts available" while another request had
\* been answered 200 from the same table.
C4_Witness ==
    \E r, q \in Requests :
        /\ req[r].endpoint = "charts" /\ req[r].pc = "done"
        /\ req[r].resp = ErrorResponse("No charts available")
        /\ req[q].pc = "done" /\ req[q].resp.status = 200
        /\ req[q].endpoint = "statistics"

ListedCols == categorical_cols \cup numerical_cols

\* C5 (as amended): without a table get_descriptive_statistics returns the
\* empty mapping and never raises (the statistics request answers 200, {});
\* on a table, also one with no rows, it returns one record per listed column
\* the table has, performance_score among them, so never the empty mapping.
C5_StatisticsOfNoTable ==
    \A r \in Requests :
        (req[r].endpoint = "statistics" /\ req[r].pc = "done") =>
            /\ data = None => req[r].resp = Response(200, EmptyMap)
            /\ (data # None /\ req[r].resp.status = 200) =>
                  /\ DOMAIN req[r].resp.body = ListedCols \cap data.cols
                  /\ "performance_score" \in DOMAIN req[r].resp.body

\* A statistics request answered from a loaded table that has no rows.
C5_Witness ==
    \E r \in Requests :
        /\ req[r].endpoint = "statistics" /\ req[r].pc = "done"
        /\ req[r].resp.status = 200
        /\ data # None /\ data.rows = <<>>
        /\ req[r].resp.body["price"].describe.count = 0

\* C5 as stated: on an unavailable table and on an empty one the statistics
\* are the empty mapping.
C5_AsStated ==
    \A r \in Requests :
        (req[r].endpoint = "statistics" /\ req[r].pc = "done"
            /\ (data = None \/ data.rows = <<>>)) =>
            req[r].resp = Response(200, EmptyMap)

-----------------------------------------------------------------------------
(* The chart builder on larger tables *)

MaxYearRows == 11

MaxMissingPrice == 1

MaxCell == 1

MaxFirstBrand == 7

RECURSIVE Rows(_, _, _)
\* n equal rows over cols with the cells given in over.
Rows(cols, n, over) ==
    IF n = 0 THEN <<>> ELSE Rows(cols, n - 1, over) \o <<Row(cols, over)>>

TrendYears == {2020, 2021}

\* A file with, per release year, p rows that have a price and m rows that
\* have none, and n rows without a release year; the later year comes first.
TrendCsv(p, m, n) ==
    Csv(FullCols,
        Rows(FullCols, p[2021], [release_year |-> 2021, price |-> 2001])
        \o Rows(FullCols, m[2020], [release_year |-> 2020, price |-> NaN])
        \o Rows(FullCols, n, [release_year |-> NaN, price |-> 500])
        \o Rows(FullCols, p[2020], [release_year |-> 2020, price |-> 1000])
        \o Rows(FullCols, m[2021], [release_year |-> 2021, price |-> NaN]))

TrendCsvs ==
    {TrendCsv(p, m, n) :
        p \in [TrendYears -> 0..MaxYearRows],
        m \in [TrendYears -> 0..MaxMissingPrice],
        n \in 0..MaxMissingPrice}

GpuBrands == 1..(TopGpuBrands + 1)

RECURSIVE BrandRows(_, _, _)
\* cells[b] rows of device type device for every GPU brand b up to brand.
BrandRows(device, cells, brand) ==
    IF brand = 0 THEN <<>>
    ELSE BrandRows(device, cells, brand - 1)
         \o Rows(FullCols, cells[brand], [device_type |-> device, gpu_brand |-> brand])

\* A file with cells[b] rows of device type 1 per GPU brand b, then nan rows
\* of device type 1 without a GPU brand, then the rows of device type 2.
GpuCsv(cells, nan, second) ==
    Csv(FullCols,
        BrandRows(1, cells, TopGpuBrands + 1)
        \o Rows(FullCols, nan, [device_type |-> 1, gpu_brand |-> NaN])
        \o second)

\* The rows of device type 2: none, two of the first brand, or one of the
\* last brand and one without a brand.
SecondDevice ==
    {<<>>,
     Rows(FullCols, 2, [device_type |-> 2, gpu_brand |-> 1]),
     <<Row(FullCols, [device_type |-> 2, gpu_brand |-> TopGpuBrands + 1]),
       Row(FullCols, [device_type |-> 2, gpu_brand |-> NaN])>>}

\* Up to MaxFirstBrand rows of the first GPU brand and up to MaxCell rows of
\* each other one.
GpuCells ==
    {[b \in GpuBrands |-> IF b = 1 THEN first ELSE others[b]] :
        first \in 0..MaxFirstBrand, others \in [GpuBrands \ {1} -> 0..MaxCell]}

GpuCsvs ==
    {GpuCsv(cells, nan, second) :
        cells \in GpuCells, nan \in 0..1, second \in SecondDevice}

\* The module has been imported with this source file on disk.
Imported(files) ==
    /\ csv \in files
    /\ data = load_and_preprocess_data(csv)
    /\ phase = "serving"
    /\ loads = 1
    /\ req = [r \in Requests |-> Idle]
    /\ input = Unused
    /\ out = NoOut

InitCharts == Imported(TrendCsvs \cup GpuCsvs)

\* create_plotly_charts() called once, no call failing unexpectedly.
CallCharts ==
    /\ ~out.called
    /\ out' = Result(create_plotly_charts(data, 0))
    /\ UNCHANGED <<csv, data, phase, loads, req, input>>

SpecCharts == InitCharts /\ [][CallCharts]_vars

-----------------------------------------------------------------------------
(* Properties of the charts *)

\* The rows of the table with this release year.
RowsOfYear(y) == {i \in 1..Len(data.rows) : data.rows[i]["release_year"] = y}

\* Those of them that have a price.
PricedRowsOfYear(y) == {i \in RowsOfYear(y) : data.rows[i]["price"] # NaN}

\* The list is strictly ascending.
Ascending(s) == \A i \in 1..(Len(s) - 1) : s[i] < s[i + 1]

\* The years of the line_price_trend chart that was returned.
TrendX == out.value["line_price_trend"].x

\* C6 (as amended): in line_price_trend a release year with fewer than 10 rows
\* that have a price never appears, a year with 10 or more such rows does, no
\* other x value appears, and the years are in ascending order.
C6_TrendYears ==
    out.called =>
        /\ DOMAIN out.value = AllChartIds
        /\ \A y \in TrendYears :
              (y \in Range(TrendX)) = (Cardinality(PricedRowsOfYear(y)) >= MinYearCount)
        /\ Range(TrendX) \subseteq TrendYears
        /\ Ascending(TrendX)

\* Both years shown, in ascending order though the later year comes first in
\* the file, one of them with exactly 10 priced rows.
C6_Witness ==
    /\ out.called
    /\ TrendX = <<2020, 2021>>
    /\ Cardinality(PricedRowsOfYear(2020)) = MinYearCount
    /\ data.rows[1]["release_year"] = 2021

\* C6 as stated: a year with fewer than 10 rows never appears, a year with 10
\* rows or more appears, and the years are ascending.
C6_AsStated ==
    out.called =>
        /\ \A y \in TrendYears :
              (y \in Range(TrendX)) = (Cardinality(RowsOfYear(y)) >= MinYearCount)
        /\ Ascending(TrendX)

\* The stacked_gpu_device chart that was returned.
Stacked == out.value["stacked_gpu_device"]

\* The GPU brands it reports.
StackedBrands == {Stacked.traces[i].name : i \in DOMAIN Stacked.traces}

\* The rows of the table with this device type.
RowsOfDevice(d) == {i \in 1..Len(data.rows) : data.rows[i]["device_type"] = d}

\* The percentages reported for the j-th device type, one per reported brand.
PercentagesOf(j) == [i \in DOMAIN Stacked.traces |-> Stacked.traces[i].y[j]]

RECURSIVE SumDouble(_)
\* The sum of a list of doubles as a number (no rounding).
SumDouble(s) ==
    IF s = <<>> THEN Double(<<>>, 0)
    ELSE LET x == Head(s)
             rest == SumDouble(Tail(s))
             e == IF x.e > rest.e THEN x.e ELSE rest.e
         IN  Double(BigPlus(ShiftLeft(x.m, e - x.e), ShiftLeft(rest.m, e - rest.e)), e)

RECURSIVE FloatSum(_)
\* The sum of a list of doubles added one by one as floats, as Python's
\* sum() does.
FloatSum(s) ==
    IF s = <<>> THEN Double(<<>>, 0)
    ELSE FloatPlus(FloatSum(SubSeq(s, 1, Len(s) - 1)), s[Len(s)])

\* x < n + 1 / 2^tol for a double x and a natural number n.
LessThanAbout(x, n, tol) ==
    BigLess(ShiftLeft(x.m, tol),
             BigPlus(ShiftLeft(Big(n), x.e + tol), ShiftLeft(Big(1), x.e)))

\* x >= n.
AtLeast(x, n) == ~BigLess(x.m, ShiftLeft(Big(n), x.e))

\* x > n.
Exceeds(x, n) == BigLess(ShiftLeft(Big(n), x.e), x.m)

\* The double x is within 1 / 2^tol of the fraction n / d.
About(x, n, d, tol) ==
    LET scaled == ShiftLeft(BigTimes(x.m, d), tol)
        exact == ShiftLeft(Big(n), x.e + tol)
        slack == ShiftLeft(Big(d), x.e)
    IN  /\ ~BigLess(BigPlus(exact, slack), scaled)
        /\ ~BigLess(BigPlus(scaled, slack), exact)

\* C7: in stacked_gpu_device at most 5 GPU brands are reported; for every
\* device type each percentage is the double count / total * 100 of the rows
\* with that device type and GPU brand over the rows with that device type,
\* within 2^-45 of the exact 100 * count / total; the reported percentages
\* sum (exactly, and added as floats) to less than 100 + 2^-42, and to 100
\* or more only if every row of the device type has a reported brand.
C7_StackedPercentages ==
    out.called =>
        /\ Len(Stacked.traces) <= TopGpuBrands
        /\ Range(Stacked.x) = {data.rows[i]["device_type"] : i \in 1..Len(data.rows)} \ {NaN}
        /\ \A j \in DOMAIN Stacked.x :
              LET rows == RowsOfDevice(Stacked.x[j])
                  covered == \A k \in rows : data.rows[k]["gpu_brand"] \in StackedBrands
                  exact == SumDouble(PercentagesOf(j))
                  float == FloatSum(PercentagesOf(j))
              IN  /\ \A i \in DOMAIN Stacked.traces :
                        LET with == {k \in rows :
                                       data.rows[k]["gpu_brand"] = Stacked.traces[i].name}
                            y == Stacked.traces[i].y[j]
                        IN  /\ y = FloatTimes(TrueDiv(Cardinality(with), Cardinality(rows)), 100)
                            /\ About(y, 100 * Cardinality(with), Cardinality(rows), 45)
                  /\ LessThanAbout(exact, 100, 42)
                  /\ LessThanAbout(float, 100, 42)
                  /\ (AtLeast(exact, 100) \/ AtLeast(float, 100)) => covered

\* Six GPU brands of which five are reported; the first device type's
\* percentages sum to less than 100, the second's to exactly 100.
C7_Witness ==
    /\ out.called
    /\ Len(FirstSeen(Column(data, "gpu_brand"))) > TopGpuBrands
    /\ Len(Stacked.traces) = TopGpuBrands
    /\ Len(Stacked.x) = 2
    /\ ~AtLeast(SumDouble(PercentagesOf(1)), 100)
    /\ ~AtLeast(FloatSum(PercentagesOf(1)), 100)
    /\ AtLeast(SumDouble(PercentagesOf(2)), 100)
    /\ ~Exceeds(SumDouble(PercentagesOf(2)), 100)

\* C7 as stated: for every device type the reported percentages sum to at
\* most 100 (be it exactly or added as floats), and to exactly 100 only if
\* every row of the device type has a reported brand.
C7_AsStated ==
    out.called =>
        \A j \in DOMAIN Stacked.x :
            LET exact == SumDouble(PercentagesOf(j))
                float == FloatSum(PercentagesOf(j))
            IN  /\ ~Exceeds(exact, 100) \/ ~Exceeds(float, 100)
                /\ (AtLeast(exact, 100) /\ ~Exceeds(exact, 100)) =>
                      \A k \in RowsOfDevice(Stacked.x[j]) :
                          data.rows[k]["gpu_brand"] \in StackedBrands

-----------------------------------------------------------------------------
(* The loader on varied source files *)

MaxLoadRows == 1

\* The six inputs of two devices.
InputCells ==
    {[cpu_tier |-> 1, gpu_tier |-> 2, cpu_cores |-> 4, vram_gb |-> 2, ram_gb |-> 8,
      cpu_boost_ghz |-> 3, price |-> 900, battery_wh |-> 50, charger_watts |-> 65,
      psu_watts |-> 0, performance_score |-> 7],
     [cpu_tier |-> 3, gpu_tier |-> 0, cpu_cores |-> 6, vram_gb |-> 1, ram_gb |-> 4,
      cpu_boost_ghz |-> 5, price |-> NaN, battery_wh |-> NaN, charger_watts |-> 90,
      psu_watts |-> 450, performance_score |-> NaN]}

\* The rows a source file over cols may hold: the cells of one of the two
\* devices, with none or one of the six inputs missing.
LoadRows(cols) ==
    {[c \in cols |-> IF c = gone THEN NaN ELSE cells[c]] :
        cells \in InputCells, gone \in PerfInputs \cup {"none"}}

\* The row lists of at most n rows of a set of rows.
SeqsUpTo(S, n) == UNION {[1..k -> S] : k \in 0..n}

\* The column sets of the source files: the six inputs but at most one, any of
\* the three columns to drop, price, and possibly a performance_score column.
LoadCols ==
    {((PerfInputs \ {lacking}) \cup dropped \cup extra) \cup {"price"} :
        lacking \in PerfInputs \cup {"none"},
        dropped \in SUBSET columns_to_drop,
        extra \in {{}, {"performance_score"}}}

LoadCsvs ==
    {Unreadable}
    \cup UNION {{Csv(cols, rows) : rows \in SeqsUpTo(LoadRows(cols), MaxLoadRows)} :
                   cols \in LoadCols}

InitLoad ==
    /\ csv \in LoadCsvs
    /\ data = None
    /\ phase = "import"
    /\ loads = 0
    /\ req = [r \in Requests |-> Idle]
    /\ input = Unused
    /\ out = NoOut

SpecLoad == InitLoad /\ [][Load]_vars

\* 8 times the performance score the row's six inputs give.
EightTimesScore(r) ==
    (8 * r["cpu_tier"] + 8 * r["gpu_tier"] + 2 * r["cpu_cores"] + 4 * r["vram_gb"]
     + r["ram_gb"]) * r["cpu_boost_ghz"]

\* C9: after a successful load every row with its six inputs present has
\* performance_score = (cpu_tier + gpu_tier + cpu_cores/4 + vram_gb/2 +
\* ram_gb/8) * cpu_boost_ghz (the stored cell is 8 times that), every row with
\* an input missing has a missing performance_score, the other cells are those
\* of the file, and the columns are the file's minus battery_wh, charger_watts
\* and psu_watts plus performance_score.
C9_PerformanceScore ==
    (phase = "serving" /\ data # None) =>
        /\ data.cols = (csv.cols \ {"battery_wh", "charger_watts", "psu_watts"})
                         \cup {"performance_score"}
        /\ Len(data.rows) = Len(csv.rows)
        /\ \A i \in 1..Len(csv.rows) :
              /\ DOMAIN data.rows[i] = data.cols
              /\ \A c \in data.cols \ {"performance_score"} :
                    data.rows[i][c] = csv.rows[i][c]
              /\ data.rows[i]["performance_score"] =
                    IF \A c \in PerfInputs : csv.rows[i][c] # NaN
                    THEN EightTimesScore(csv.rows[i]) ELSE NaN

\* A file with two of the three columns to drop, loaded; its row has all six
\* inputs and a score.
C9_Witness ==
    /\ phase = "serving"
    /\ data # None
    /\ csv.cols \cap columns_to_drop = {"battery_wh", "psu_watts"}
    /\ Len(data.rows) = 1
    /\ \A c \in PerfInputs : data.rows[1][c] # NaN
    /\ data.rows[1]["performance_score"] # NaN

-----------------------------------------------------------------------------
(* The statistics engine on varied columns *)

MaxStatRows == 4

PriceCells == {NaN, 1, 2, 4, 7}

\* The source files whose price column is any list of at most MaxStatRows cells.
StatCsvs ==
    {Csv(FullCols, [i \in DOMAIN prices |-> Row(FullCols, [price |-> prices[i]])]) :
        prices \in SeqsUpTo(PriceCells, MaxStatRows)}

InitStats == Imported(StatCsvs)

\* get_descriptive_statistics() called once.
CallStatistics ==
    /\ ~out.called
    /\ out' = Result(get_descriptive_statistics(data))
    /\ UNCHANGED <<csv, data, phase, loads, req, input>>

SpecStats == InitStats /\ [][CallStatistics]_vars

\* The median by full sort: the middle element of the sorted non-missing cells
\* (odd count), the mean of the two middle ones (even count), missing if none.
MedianByFullSort(s) ==
    LET v == SortAsc(DropNa(s))
        n == Len(v)
    IN  IF n = 0 THEN NaNFrac
        ELSE IF n % 2 = 1 THEN Frac(v[(n + 1) \div 2], 1)
        ELSE Frac(v[n \div 2] + v[(n \div 2) + 1], 2)

-----------------------------------------------------------------------------
(* The serialization helpers *)

\* A Python value is [t |-> its type, v |-> its content]: the scalars "nan"
\* (a NaN float), "float", "str" and "none"; "list" and "tuple" of values;
\* "dict", a list of <<key, value>>; "ndarray" and "series" of scalars.
Py(t, v) == [t |-> t, v |-> v]

PyNaN == Py("nan", 0)

\* _sanitize(obj) (lines 13-23): arrays and series to lists (tolist keeps a
\* NaN a NaN float), dicts and lists/tuples element by element, the rest as is.
RECURSIVE _sanitize(_)
_sanitize(obj) ==
    IF obj.t \in {"ndarray", "series"} THEN Py("list", obj.v)
    ELSE IF obj.t = "dict"
         THEN Py("dict", [i \in DOMAIN obj.v |-> <<obj.v[i][1], _sanitize(obj.v[i][2])>>])
    ELSE IF obj.t \in {"list", "tuple"}
         THEN Py("list", [i \in DOMAIN obj.v |-> _sanitize(obj.v[i])])
    ELSE obj

RECURSIVE Join(_)
\* The token lists of a list, separated by commas.
Join(parts) ==
    IF parts = <<>> THEN <<>>
    ELSE IF Len(parts) = 1 THEN parts[1]
    ELSE parts[1] \o <<",">> \o Join(Tail(parts))

\* json.dumps of a scalar (allow_nan is left at its default, True): the token.
ScalarToken(obj) ==
    CASE obj.t = "nan" -> "NaN"
      [] obj.t = "none" -> "null"
      [] obj.t = "float" -> ToString(obj.v)
      [] OTHER -> "\"" \o obj.v \o "\""

RECURSIVE Dumps(_)
\* json.dumps(obj) as a list of tokens; <<"TypeError">> for an object the
\* encoder does not know (an array, a series).
Dumps(obj) ==
    IF obj.t \in {"ndarray", "series"} THEN <<"TypeError">>
    ELSE IF obj.t \in {"list", "tuple"}
         THEN LET parts == [i \in DOMAIN obj.v |-> Dumps(obj.v[i])]
              IN  IF \E i \in DOMAIN parts : parts[i] = <<"TypeError">>
                  THEN <<"TypeError">>
                  ELSE <<"[">> \o Join(parts) \o <<"]">>
    ELSE IF obj.t = "dict"
         THEN LET parts == [i \in DOMAIN obj.v |->
                               <<"\"" \o obj.v[i][1] \o "\"", ":">> \o Dumps(obj.v[i][2])]
              IN  IF \E i \in DOMAIN obj.v : Dumps(obj.v[i][2]) = <<"TypeError">>
                  THEN <<"TypeError">>
                  ELSE <<"{">> \o Join(parts) \o <<"}">>
    ELSE <<ScalarToken(obj)>>

\* _fig_json (lines 27-29) from the figure's plain object on: sanitize, dump.
_fig_json(obj) == Dumps(_sanitize(obj))

MaxItems == 2

PyScalars == {PyNaN, Py("float", 1), Py("str", "a"), Py("none", 0)}

\* The values nested one level: scalars, and lists, tuples, dicts, arrays and
\* series of at most MaxItems scalars.
PyFlat ==
    PyScalars
    \cup {Py(t, items) : t \in {"list", "tuple"}, items \in SeqsUpTo(PyScalars, MaxItems)}
    \cup {Py("dict", [i \in DOMAIN items |-> <<IF i = 1 THEN "x" ELSE "y", items[i]>>]) :
              items \in SeqsUpTo(PyScalars, MaxItems)}
    \cup {Py(t, items) : t \in {"ndarray", "series"},
                         items \in SeqsUpTo({PyNaN, Py("float", 1)}, MaxItems)}

\* The values nested two levels: those and lists, tuples and dicts of them.
PyValues ==
    PyFlat
    \cup {Py(t, <<v>>) : t \in {"list", "tuple"}, v \in PyFlat}
    \cup {Py("list", <<Py("float", 2), v>>) : v \in PyFlat}
    \cup {Py("dict", <<<<"data", v>>>>) : v \in PyFlat}

InitJson ==
    /\ csv = Unreadable
    /\ data = None
    /\ phase = "serving"
    /\ loads = 1
    /\ req = [r \in Requests |-> Idle]
    /\ input \in PyValues
    /\ out = NoOut

\* _sanitize and json.dumps applied to the input.
CallFigJson ==
    /\ ~out.called
    /\ out' = Result(_fig_json(input))
    /\ UNCHANGED <<csv, data, phase, loads, req, input>>

SpecJson == InitJson /\ [][CallFigJson]_vars

RECURSIVE ContainsNaN(_)
\* The value holds a NaN at some depth.
ContainsNaN(obj) ==
    IF obj.t = "nan" THEN TRUE
    ELSE IF obj.t \in {"list", "tuple", "ndarray", "series"}
         THEN \E i \in DOMAIN obj.v : ContainsNaN(obj.v[i])
    ELSE IF obj.t = "dict" THEN \E i \in DOMAIN obj.v : ContainsNaN(obj.v[i][2])
    ELSE FALSE

RECURSIVE JsonWithNull(_)
\* The JSON text the claim describes: null where the value is missing, every
\* sequence a list, dict keys and the other scalars as they are.
JsonWithNull(obj) ==
    IF obj.t \in {"list", "tuple", "ndarray", "series"}
    THEN <<"[">> \o Join([i \in DOMAIN obj.v |-> JsonWithNull(obj.v[i])]) \o <<"]">>
    ELSE IF obj.t = "dict"
         THEN <<"{">> \o Join([i \in DOMAIN obj.v |->
                                 <<"\"" \o obj.v[i][1] \o "\"", ":">>
                                 \o JsonWithNull(obj.v[i][2])]) \o <<"}">>
    ELSE IF obj.t \in {"nan", "none"} THEN <<"null">>
    ELSE <<ScalarToken(obj)>>

\* C8: a value that holds a missing/NaN numeric entry, at any depth of lists,
\* tuples, mappings and arrays, comes out of _sanitize and JSON encoding with
\* a JSON null at that place (no NaN token, no string, no error), everything
\* else unchanged.
C8_NaNBecomesNull ==
    (out.called /\ ContainsNaN(input)) => out.value = JsonWithNull(input)

-----------------------------------------------------------------------------
(* Repeated runs over one table *)

MaxRuns == 2

MaxRunRows == 4

MaxGenerator == 2

\* The states of numpy's process-wide random generator (np.random), which
\* data.sample would draw from were it not given random_state.
GeneratorStates == 0..MaxGenerator

RECURSIVE DistinctRows(_)
\* n rows, the i-th with cpu_tier i and price 1000 + i.
DistinctRows(n) ==
    IF n = 0 THEN <<>>
    ELSE DistinctRows(n - 1) \o <<Row(FullCols, [cpu_tier |-> n, price |-> 1000 + n])>>

RunCsvs ==
    ServerCsvs \cup {Csv(FullCols, DistinctRows(n)) : n \in 1..MaxRunRows}

\* A run of create_plotly_charts that found the process-wide generator in
\* state seen and returned value.
Run(seen, value) == [seen |-> seen, value |-> value]

\* No run of either function yet: the outputs of get_descriptive_statistics
\* so far, and the runs of create_plotly_charts.
NoRuns == [statistics |-> <<>>, charts |-> <<>>]

\* The module has been imported; the process-wide generator is in any state.
InitRuns ==
    /\ csv \in RunCsvs
    /\ data = load_and_preprocess_data(csv)
    /\ phase = "serving"
    /\ loads = 1
    /\ req = [r \in Requests |-> Idle]
    /\ input \in GeneratorStates
    /\ out = NoRuns

\* get_descriptive_statistics() called once more.
RunStatistics ==
    /\ Len(out.statistics) < MaxRuns
    /\ out' = [out EXCEPT !.statistics = Append(@, get_descriptive_statistics(data))]
    /\ UNCHANGED <<csv, data, phase, loads, req, input>>

\* create_plotly_charts() called once more, no call failing unexpectedly;
\* sample(random_state=42) seeds a generator of its own and leaves the
\* process-wide one as it is.
RunCharts ==
    /\ Len(out.charts) < MaxRuns
    /\ out' = [out EXCEPT !.charts = Append(@, Run(input, create_plotly_charts(data, 0)))]
    /\ UNCHANGED <<csv, data, phase, loads, req, input>>

\* Other code of the process draws from the process-wide generator.
OtherDraw ==
    /\ \E g \in GeneratorStates \ {input} : input' = g
    /\ UNCHANGED <<csv, data, phase, loads, req, out>>

NextRuns == RunStatistics \/ RunCharts \/ OtherDraw

SpecRuns == InitRuns /\ [][NextRuns]_vars

\* The points of a scatter_price_performance chart, as <<x, y>> pairs.
Points(chart) == [i \in DOMAIN chart.x |-> <<chart.x[i], chart.y[i]>>]

\* The <<performance_score, price>> pairs of the table's rows.
RowPoints == [i \in 1..Len(data.rows) |->
                 <<data.rows[i]["performance_score"], data.rows[i]["price"]>>]

\* The points are those of n distinct rows of the table: none occurs more
\* often than among the rows.
DistinctRowsOf(points, n) ==
    /\ Len(points) = n
    /\ \A p \in Range(points) :
          Cardinality({i \in DOMAIN points : points[i] = p})
              <= Cardinality({i \in DOMAIN RowPoints : RowPoints[i] = p})

====
